---- MODULE Spec2Model ----
(***************************************************************************)
(* Triple-Crown: the vault boundary (VaultBoundary) and its consumer, the  *)
(* file-context loader of ClaudeService.                                   *)
(*                                                                         *)
(* Paths are strings, handled character by character as the code does      *)
(* (String.prototype.startsWith, the regular expression of the hidden-file *)
(* rule), and the library calls the code makes (Node's posix path.resolve, *)
(* path.join, path.relative, path.isAbsolute and Obsidian's normalizePath) *)
(* are computed as those functions compute them.  The host is a POSIX      *)
(* desktop; the adapter's path field is an absolute, normalized directory. *)
(***************************************************************************)
EXTENDS Integers, Sequences, FiniteSets, Bags, TLC

VARIABLES
  adapterPath,  \* (app.vault.adapter as any).path : the host's live vault root
  vaultPath,    \* VaultBoundary.vaultPath : the root cached by the constructor
  cwd,          \* process.cwd() : the working directory path.resolve falls back on
  pc,           \* where the current top-level request stands
  req,          \* the current top-level request: [method, arg, operation]
  result,       \* outcome of the last completed VaultBoundary call: [exc, ret]
  sanitized,    \* getContextForFile: const sanitizedPath
  events,       \* getContextForFile: what this call has done so far, in order
  reply,        \* getContextForFile / findClaudeConfig: what the call resolved to
  currentPath,  \* findClaudeConfig: let currentPath
  enabledActions, \* TripleCrownPlugin.settings.enabledActions
  files,        \* app.vault: the content of every file, by vault-relative path
  today,        \* the day new Date() falls on
  cpc,          \* where the command the user invoked stands
  run,          \* the command in flight: what its callback was handed and read
  calls,        \* what the command in flight has called so far, in order
  before,       \* app.vault as it was when the command in flight was invoked
  conversationHistory, \* ClaudeService.conversationHistory
  pending,      \* the bag of sendRequest calls awaiting the API's response, each
                \* with whether the session was reset since it was made
  lastSettled,  \* how the call that settled last ended for its caller
  actionDefinitions, \* CustomActionManager.actionDefinitions
  customActions, \* CustomActionManager.customActions: the active actions by id
  history,      \* TerminalView.history
  historyIndex, \* TerminalView.historyIndex
  input,        \* TerminalView.input.value
  isProcessing, \* TerminalView.isProcessing, and with it input.disabled
  key           \* the key of the last keydown on the terminal's input

boundaryVars ==
  <<adapterPath, vaultPath, cwd, pc, req, result, sanitized, events, reply, currentPath>>
pluginVars == <<enabledActions, files, today, cpc, run, calls, before>>
chatVars == <<conversationHistory, pending, lastSettled>>
managerVars == <<actionDefinitions, customActions>>
terminalVars == <<history, historyIndex, input, isProcessing, key>>
vars == <<adapterPath, vaultPath, cwd, pc, req, result, sanitized, events, reply, currentPath,
          enabledActions, files, today, cpc, run, calls, before,
          conversationHistory, pending, lastSettled,
          actionDefinitions, customActions,
          history, historyIndex, input, isProcessing, key>>

----------------------------------------------------------------------------
(* Values that are not path strings.                                       *)

\* JavaScript null, the "absent" result of sanitizePath / getRelativePath.
NULL == "<null>"
\* A candidate that is not a string at run time (undefined passed through an
\* untyped caller): path.resolve / path.isAbsolute / path.join throw on it.
NotAString == "<undefined>"
\* process.cwd() throws (the working directory was removed).
CwdGone == "<ENOENT>"
\* No value yet.
None == "<none>"

IsString(p) == p # NotAString

----------------------------------------------------------------------------
(* Strings.                                                                *)

Char(s, i) == SubSeq(s, i, i)

\* String.prototype.startsWith
StartsWith(s, prefix) ==
  /\ Len(prefix) <= Len(s)
  /\ SubSeq(s, 1, Len(prefix)) = prefix

RECURSIVE SplitFrom(_, _, _, _)
SplitFrom(s, sep, i, start) ==
  IF i > Len(s) THEN <<SubSeq(s, start, Len(s))>>
  ELSE IF Char(s, i) = sep
       THEN <<SubSeq(s, start, i - 1)>> \o SplitFrom(s, sep, i + 1, i + 1)
       ELSE SplitFrom(s, sep, i + 1, start)

\* s.split('/') : "a/b" -> <<"a","b">>, "/a" -> <<"","a">>, "" -> <<"">>
Split(s) == SplitFrom(s, "/", 1, 1)

RECURSIVE JoinSegs(_)
\* segs.join('/')
JoinSegs(segs) ==
  IF Len(segs) = 0 THEN ""
  ELSE IF Len(segs) = 1 THEN segs[1]
  ELSE segs[1] \o "/" \o JoinSegs(Tail(segs))

RECURSIVE ReplaceChar(_, _, _)
ReplaceChar(s, from, to) ==
  IF Len(s) = 0 THEN ""
  ELSE (IF Char(s, 1) = from THEN to ELSE Char(s, 1))
         \o ReplaceChar(SubSeq(s, 2, Len(s)), from, to)

RECURSIVE NonEmpty(_)
NonEmpty(segs) ==
  IF Len(segs) = 0 THEN <<>>
  ELSE IF segs[1] = "" THEN NonEmpty(Tail(segs))
  ELSE <<segs[1]>> \o NonEmpty(Tail(segs))

----------------------------------------------------------------------------
(* Node's path module (posix) and Obsidian's normalizePath.                *)

\* path.isAbsolute
IsAbsolute(p) == Len(p) > 0 /\ Char(p, 1) = "/"

RECURSIVE NormalizeSegs(_, _, _)
\* normalizeString: drops empty and "." segments, lets ".." remove the segment
\* before it; at the top ".." is kept only when allowAboveRoot.
NormalizeSegs(segs, acc, allowAboveRoot) ==
  IF Len(segs) = 0 THEN acc
  ELSE LET s == segs[1]
           rest == Tail(segs)
       IN IF s = "" \/ s = "." THEN NormalizeSegs(rest, acc, allowAboveRoot)
          ELSE IF s = ".."
               THEN IF Len(acc) > 0 /\ acc[Len(acc)] # ".."
                    THEN NormalizeSegs(rest, SubSeq(acc, 1, Len(acc) - 1), allowAboveRoot)
                    ELSE IF allowAboveRoot
                         THEN NormalizeSegs(rest, Append(acc, ".."), allowAboveRoot)
                         ELSE NormalizeSegs(rest, acc, allowAboveRoot)
               ELSE NormalizeSegs(rest, Append(acc, s), allowAboveRoot)

NormalizeString(p, allowAboveRoot) ==
  JoinSegs(NormalizeSegs(Split(p), <<>>, allowAboveRoot))

\* path.normalize
Normalize(p) ==
  IF Len(p) = 0 THEN "."
  ELSE LET isAbs == IsAbsolute(p)
           trailingSeparator == Char(p, Len(p)) = "/"
           n == NormalizeString(p, ~isAbs)
           n1 == IF Len(n) = 0 /\ ~isAbs THEN "." ELSE n
           n2 == IF Len(n1) > 0 /\ trailingSeparator THEN n1 \o "/" ELSE n1
       IN IF isAbs THEN "/" \o n2 ELSE n2

\* path.join(a, b)
Join(a, b) ==
  LET joined == IF Len(a) = 0 THEN b
                ELSE IF Len(b) = 0 THEN a
                ELSE a \o "/" \o b
  IN IF Len(joined) = 0 THEN "." ELSE Normalize(joined)

\* path.resolve(p) throws: a TypeError for a non-string, or process.cwd()'s
\* error when the candidate is relative and the working directory is gone.
ResolveThrows(dir, p) ==
  \/ ~IsString(p)
  \/ ~IsAbsolute(p) /\ dir = CwdGone

\* path.resolve(p), with process.cwd() = dir
Resolve(dir, p) ==
  LET full == IF IsAbsolute(p) THEN p ELSE dir \o "/" \o p
  IN "/" \o NormalizeString(full, FALSE)

\* The segments of a resolved (absolute, normalized) path; "/" has none.
AbsSegs(abs) == NonEmpty(Split(abs))

RECURSIVE CommonLen(_, _)
CommonLen(a, b) ==
  IF Len(a) = 0 \/ Len(b) = 0 THEN 0
  ELSE IF a[1] = b[1] THEN 1 + CommonLen(Tail(a), Tail(b))
  ELSE 0

\* path.relative(from, to), with process.cwd() = dir
Relative(dir, from, to) ==
  LET f == AbsSegs(Resolve(dir, from))
      t == AbsSegs(Resolve(dir, to))
      k == CommonLen(f, t)
      ups == [i \in 1..(Len(f) - k) |-> ".."]
  IN JoinSegs(ups \o SubSeq(t, k + 1, Len(t)))

\* Obsidian's normalizePath: every run of '/' and '\' becomes one '/', leading
\* and trailing slashes are removed, and the empty result is "/".
normalizePath(p) ==
  LET n == JoinSegs(NonEmpty(Split(ReplaceChar(p, "\\", "/"))))
  IN IF Len(n) = 0 THEN "/" ELSE n

----------------------------------------------------------------------------
(* Outcomes of a method call: it returns a value or lets an exception out. *)

Return(v) == [exc |-> FALSE, ret |-> v]
Raise == [exc |-> TRUE, ret |-> None]

\* try { body } catch (error) { return fallback; }
Catch(r, fallback) == IF r.exc THEN Return(fallback) ELSE r

\* JavaScript's !value for a string | null
Falsy(v) == v = NULL \/ v = ""

----------------------------------------------------------------------------
(* VaultBoundary.  vp is this.vaultPath, dir is process.cwd().             *)

\* The body of isPathInVault's try block.
isPathInVaultTry(vp, dir, testPath) ==
  IF ResolveThrows(dir, testPath) \/ ResolveThrows(dir, vp) THEN Raise
  ELSE LET normalizedTestPath == Resolve(dir, testPath)
           normalizedVaultPath == Resolve(dir, vp)
       IN Return(StartsWith(normalizedTestPath, normalizedVaultPath))

\* isPathInVault without its try/catch: a failed resolution gets out.
isPathInVault_NoCatch(vp, dir, testPath) ==
  isPathInVaultTry(vp, dir, testPath)

isPathInVault(vp, dir, testPath) ==
  Catch(isPathInVaultTry(vp, dir, testPath), FALSE)

\* sanitizePath resolving a relative candidate against the working
\* directory, as isPathInVault does, instead of joining it onto the root.
sanitizePathTry_CwdRelative(vp, dir, inputPath) ==
  IF ResolveThrows(dir, inputPath) THEN Raise
  ELSE LET absolutePath == Resolve(dir, inputPath)
           inVault == isPathInVault(vp, dir, absolutePath)
       IN IF inVault.exc THEN Raise
          ELSE IF inVault.ret THEN Return(absolutePath)
          ELSE Return(NULL)

\* sanitizePath without the branch for absolute candidates: every candidate
\* is normalized and joined onto the root.
sanitizePathTry_AlwaysJoin(vp, dir, inputPath) ==
  IF ~IsString(inputPath) THEN Raise
  ELSE LET vaultRelativePath == normalizePath(inputPath)
           absolutePath == Join(vp, vaultRelativePath)
           inVault == isPathInVault(vp, dir, absolutePath)
       IN IF inVault.exc THEN Raise
          ELSE IF inVault.ret THEN Return(absolutePath)
          ELSE Return(NULL)

\* The body of sanitizePath's try block.
sanitizePathTry(vp, dir, inputPath) ==
  IF ~IsString(inputPath) THEN Raise        \* path.isAbsolute(inputPath)
  ELSE IF ~IsAbsolute(inputPath)
       THEN LET vaultRelativePath == normalizePath(inputPath)
                absolutePath == Join(vp, vaultRelativePath)
                inVault == isPathInVault(vp, dir, absolutePath)
            IN IF inVault.exc THEN Raise
               ELSE IF inVault.ret THEN Return(absolutePath)
               ELSE Return(NULL)
       ELSE LET inVault == isPathInVault(vp, dir, inputPath)
            IN IF inVault.exc THEN Raise
               ELSE IF inVault.ret THEN Return(inputPath)
               ELSE Return(NULL)

sanitizePath(vp, dir, inputPath) ==
  Catch(sanitizePathTry(vp, dir, inputPath), NULL)

\* getRelativePath with the arguments of path.relative exchanged.
getRelativePath_Swapped(vp, dir, absolutePath) ==
  LET inVault == isPathInVault(vp, dir, absolutePath)
  IN IF inVault.exc THEN Raise
     ELSE IF ~inVault.ret THEN Return(NULL)
     ELSE IF ResolveThrows(dir, vp) \/ ResolveThrows(dir, absolutePath) THEN Raise
     ELSE Return(Relative(dir, absolutePath, vp))

getRelativePath(vp, dir, absolutePath) ==
  LET inVault == isPathInVault(vp, dir, absolutePath)
  IN IF inVault.exc THEN Raise
     ELSE IF ~inVault.ret THEN Return(NULL)
     ELSE IF ResolveThrows(dir, vp) \/ ResolveThrows(dir, absolutePath) THEN Raise
     ELSE Return(Relative(dir, vp, absolutePath))

Operations == {"read", "write", "delete"}

ObsidianDir == ".obsidian/"
PluginDir == ".obsidian/plugins/triple-crown/"
ClaudeDir == ".claude/"

\* relativePath.match(/^\.[^\/]+/)
MatchesHidden(relativePath) ==
  /\ Len(relativePath) >= 2
  /\ Char(relativePath, 1) = "."
  /\ Char(relativePath, 2) # "/"

\* validateFileOperation letting only reads into the .claude folder.
validateFileOperation_ReadOnlyClaude(vp, dir, filePath, operation) ==
  LET inVault == isPathInVault(vp, dir, filePath)
  IN IF inVault.exc THEN Raise
     ELSE IF ~inVault.ret THEN Return(FALSE)
     ELSE LET rel == getRelativePath(vp, dir, filePath)
          IN IF rel.exc THEN Raise
             ELSE IF Falsy(rel.ret) THEN Return(FALSE)
             ELSE IF /\ StartsWith(rel.ret, ObsidianDir)
                     /\ ~StartsWith(rel.ret, PluginDir)
                  THEN Return(FALSE)
             ELSE IF MatchesHidden(rel.ret)
                       /\ ~(StartsWith(rel.ret, ClaudeDir) /\ operation = "read")
                  THEN Return(FALSE)
             ELSE Return(TRUE)

\* validateFileOperation without the hidden-file rule.
validateFileOperation_NoHiddenRule(vp, dir, filePath, operation) ==
  LET inVault == isPathInVault(vp, dir, filePath)
  IN IF inVault.exc THEN Raise
     ELSE IF ~inVault.ret THEN Return(FALSE)
     ELSE LET rel == getRelativePath(vp, dir, filePath)
          IN IF rel.exc THEN Raise
             ELSE IF Falsy(rel.ret) THEN Return(FALSE)
             ELSE IF /\ StartsWith(rel.ret, ObsidianDir)
                     /\ ~StartsWith(rel.ret, PluginDir)
                  THEN Return(FALSE)
             ELSE Return(TRUE)

\* validateFileOperation denying only a null relative path, not an empty one.
validateFileOperation_NullOnly(vp, dir, filePath, operation) ==
  LET inVault == isPathInVault(vp, dir, filePath)
  IN IF inVault.exc THEN Raise
     ELSE IF ~inVault.ret THEN Return(FALSE)
     ELSE LET rel == getRelativePath(vp, dir, filePath)
          IN IF rel.exc THEN Raise
             ELSE IF rel.ret = NULL THEN Return(FALSE)
             ELSE IF /\ StartsWith(rel.ret, ObsidianDir)
                     /\ ~StartsWith(rel.ret, PluginDir)
                  THEN Return(FALSE)
             ELSE IF MatchesHidden(rel.ret) /\ ~StartsWith(rel.ret, ClaudeDir)
                  THEN Return(FALSE)
             ELSE Return(TRUE)

validateFileOperation(vp, dir, filePath, operation) ==
  LET inVault == isPathInVault(vp, dir, filePath)
  IN IF inVault.exc THEN Raise
     ELSE IF ~inVault.ret THEN Return(FALSE)
     ELSE LET rel == getRelativePath(vp, dir, filePath)
          IN IF rel.exc THEN Raise
             ELSE IF Falsy(rel.ret) THEN Return(FALSE)
             ELSE IF /\ StartsWith(rel.ret, ObsidianDir)
                     /\ ~StartsWith(rel.ret, PluginDir)
                  THEN Return(FALSE)
             ELSE IF MatchesHidden(rel.ret) /\ ~StartsWith(rel.ret, ClaudeDir)
                  THEN Return(FALSE)
             ELSE Return(TRUE)

\* createSecurityContext().blockedPaths
blockedPaths(vp) == {Join(vp, ".obsidian"), Join(vp, ".git")}

\* createSecurityContext().maxFileSize
maxFileSize == 10 * 1024 * 1024

----------------------------------------------------------------------------
(* The inputs the model draws from.                                        *)

\* The most name segments a generated candidate has below its base.
MaxSegs == 2

\* Vault roots the host hands over.
Roots == {"/vault", "/tmp/test-vault"}

\* Working directories of the process: the file-system root, a folder inside
\* a vault, a folder of a sibling directory whose name extends a root's name,
\* and a working directory that has been removed.
Cwds == {"/", "/vault/a", "/tmp/test-vault2/a/b/c", CwdGone}

\* Name segments: an ordinary name, hidden names, the allow-listed one, and
\* the two special segments.
Names == {"a", ".git", ".claude", "..", "."}

RECURSIVE RelPaths(_)
\* Every relative path of 1..n name segments.
RelPaths(n) ==
  IF n = 0 THEN {}
  ELSE LET shorter == RelPaths(n - 1)
       IN Names \cup {p \o "/" \o s : p \in shorter, s \in Names}

\* What a generated candidate starts with: nothing (a relative candidate), a
\* root, or a sibling directory whose name extends a root's name.
Bases == {"", "/vault", "/vaultx", "/tmp/test-vault"}

Generated ==
  {IF b = "" THEN r ELSE b \o "/" \o r : b \in Bases, r \in RelPaths(MaxSegs)}

\* security-test.ts, Test 1: paths outside the vault
OutsidePaths ==
  {"/etc/passwd", "/Users/testuser/Documents", "../../../etc/hosts",
   "~/.ssh/id_rsa", "/System/Library", "C:\\Windows\\System32",
   "/var/log/system.log"}

\* security-test.ts, Test 2: vault paths
VaultPaths == {"notes/example.md", ".claude/config.json", "folder/subfolder/file.txt"}

\* security-test.ts, Test 3: sensitive files
SensitiveFiles == {".obsidian/config.json", ".git/config", ".env", ".ssh/known_hosts"}

\* Further candidates: the roots themselves, a prefix collision, the plugin's
\* own configuration, repeated and trailing separators, the empty string.
OtherPaths ==
  {"/vault", "/tmp/test-vault", "/vaultx/file.md", "/vault/notes/.git/config",
   "/vault/.obsidian/plugins/triple-crown/data.json", "/vault/.obsidian/app.json",
   "/vault/.claude/config.json", "/vault/.claudex/a", "/vault//a/", "a\\b", "", "/"}

Strings == Generated \cup OutsidePaths \cup VaultPaths \cup SensitiveFiles \cup OtherPaths

Inputs == Strings \cup {NotAString}

\* The lengths a file's content may have.
ContentLengths == {0, maxFileSize, maxFileSize + 1}

----------------------------------------------------------------------------
(* The plugin: its settings, the vault's files, the editor, the actions.   *)

RECURSIVE TrimStart(_)
TrimStart(s) ==
  IF Len(s) > 0 /\ Char(s, 1) = " " THEN TrimStart(SubSeq(s, 2, Len(s))) ELSE s

RECURSIVE TrimEnd(_)
TrimEnd(s) ==
  IF Len(s) > 0 /\ Char(s, Len(s)) = " " THEN TrimEnd(SubSeq(s, 1, Len(s) - 1)) ELSE s

\* String.prototype.trim
Trim(s) == TrimEnd(TrimStart(s))

\* String.prototype.lastIndexOf, counted from 1; 0 when ch does not occur.
LastIndexOf(s, ch) ==
  LET hits == {i \in 1..Len(s) : Char(s, i) = ch}
  IN IF hits = {} THEN 0 ELSE CHOOSE i \in hits : \A j \in hits : j <= i

\* path.dirname(p): trailing separators are skipped, then the path is cut at
\* the last separator that is left (the first character is never the cut).
dirname(p) ==
  LET hasRoot == Len(p) > 0 /\ Char(p, 1) = "/"
      named == {i \in 1..Len(p) : Char(p, i) # "/"}
      lastNamed == IF named = {} THEN 0 ELSE CHOOSE i \in named : \A j \in named : j <= i
      cuts == {i \in 2..lastNamed : Char(p, i) = "/"}
      end == IF cuts = {} THEN 0 ELSE CHOOSE i \in cuts : \A j \in cuts : j <= i
  IN IF Len(p) = 0 THEN "."
     ELSE IF end = 0 THEN (IF hasRoot THEN "/" ELSE ".")
     ELSE IF hasRoot /\ end = 2 THEN "//"
     ELSE SubSeq(p, 1, end - 1)

LastSegment(p) == SubSeq(p, LastIndexOf(p, "/") + 1, Len(p))

\* path.extname(p)
extname(p) ==
  LET base == LastSegment(p)
      j == LastIndexOf(base, ".")
  IN IF j <= 1 THEN "" ELSE SubSeq(base, j, Len(base))

\* path.basename(p, ext)
basename(p, ext) ==
  LET base == LastSegment(p)
  IN IF /\ Len(ext) > 0
        /\ Len(base) > Len(ext)
        /\ SubSeq(base, Len(base) - Len(ext) + 1, Len(base)) = ext
     THEN SubSeq(base, 1, Len(base) - Len(ext))
     ELSE base

\* An Obsidian TFile: its vault-relative path, its name without the
\* extension, its extension without the dot.
TFile(p) ==
  [path |-> p,
   basename |-> basename(p, extname(p)),
   extension |-> IF extname(p) = "" THEN "" ELSE SubSeq(extname(p), 2, Len(extname(p)))]

\* DEFAULT_SETTINGS.enabledActions
DefaultEnabledActions ==
  [writingAssistant |-> TRUE, tagBuilder |-> TRUE, connectionFinder |-> TRUE,
   therapistMode |-> FALSE, codeReviewer |-> TRUE, peerReviewer |-> TRUE,
   researchAssistant |-> TRUE]

\* The toggles of the settings tab's Actions section.
Toggles ==
  {"writingAssistant", "tagBuilder", "connectionFinder", "therapistMode",
   "codeReviewer", "peerReviewer"}

\* The editor commands onload registers for the built-in actions.
Commands ==
  {"writing-assistant", "duplicate-and-edit", "tag-builder", "connection-finder",
   "therapist-mode", "code-reviewer", "peer-reviewer"}

\* The actions built on BaseAction.
BaseActions ==
  {"tag-builder", "connection-finder", "therapist-mode", "code-reviewer",
   "peer-reviewer"}

\* The settings toggle that belongs to a command's action.
ToggleOf(command) ==
  IF command \in {"writing-assistant", "duplicate-and-edit"} THEN "writingAssistant"
  ELSE IF command = "tag-builder" THEN "tagBuilder"
  ELSE IF command = "connection-finder" THEN "connectionFinder"
  ELSE IF command = "therapist-mode" THEN "therapistMode"
  ELSE IF command = "code-reviewer" THEN "codeReviewer"
  ELSE "peerReviewer"

CodeFileTypes ==
  {"md", "js", "ts", "py", "java", "cpp", "c", "go", "rs", "php", "rb", "swift", "kt"}

\* The ActionConfig each action's constructor hands to BaseAction.
ActionConfig(action) ==
  [enabled |-> action # "therapist-mode",
   requiresSelection |-> action = "code-reviewer",
   supportedFileTypes |-> IF action = "code-reviewer" THEN CodeFileTypes ELSE {"md"}]

\* BaseAction.canExecute
canExecute(config, selection, file) ==
  IF ~config.enabled THEN FALSE
  ELSE IF file # NULL /\ TFile(file).extension \notin config.supportedFileTypes THEN FALSE
  ELSE IF config.requiresSelection /\ (selection = "" \/ Len(Trim(selection)) = 0) THEN FALSE
  ELSE TRUE

\* A file's content, as the sequence of its blocks.
ClaudeEditsHeading == "## Claude Edits"

\* content.includes(block)
Includes(content, block) == \E i \in 1..Len(content) : content[i] = block

\* content.replace(/(block\n\n)/, `$1${inserted}`): the first match only
InsertAfterFirst(content, block, inserted) ==
  IF ~Includes(content, block) THEN content
  ELSE LET i == CHOOSE k \in 1..Len(content) :
                  /\ content[k] = block
                  /\ \A j \in 1..(k - 1) : content[j] # block
       IN SubSeq(content, 1, i) \o <<inserted>> \o SubSeq(content, i + 1, Len(content))

\* The days the plugin may be loaded on, and how many toggles the user may
\* have away from their defaults at once.
MaxDays == 2
MaxChanged == 1

\* new Date().toISOString() on the given day
toISOString(day) == "2024-01-0" \o ToString(day) \o "T09:30:00.000Z"

\* createDuplicateFile: the path of the timestamped copy
duplicatePath(originalPath, day) ==
  LET dir == dirname(originalPath)
      baseName == basename(originalPath, extname(originalPath))
      ext == extname(originalPath)
      timestamp == Head(SplitFrom(toISOString(day), "T", 1, 1))
      duplicateName == baseName \o "-claude-edit-" \o timestamp \o ext
  IN Join(dir, duplicateName)

\* createDuplicateFile: the content of the copy
duplicateContent(originalPath, editedContent, reasoning) ==
  <<"original: [[" \o TFile(originalPath).basename \o "]]", editedContent>>
    \o (IF reasoning # NULL THEN <<"## Claude's Reasoning">> ELSE <<>>)

\* addBacklinkToOriginal: what it writes to the original file
withBacklink(originalContent, duplicate) ==
  LET newLink == "- [[" \o TFile(duplicate).basename \o "]]"
  IN IF ~Includes(originalContent, ClaudeEditsHeading)
     THEN originalContent \o <<ClaudeEditsHeading, newLink>>
     ELSE InsertAfterFirst(originalContent, ClaudeEditsHeading, newLink)

\* The file of the view a command is invoked on (null: the view shows no file),
\* the editor's text and the selection.
Note == "journal/day.md"
ViewFiles == {NULL, Note, "src/app.ts"}
EditorValues == {"", " ", "text"}
Selections == {"", "sel"}

\* What claudeService.sendRequest resolves to.
Responses ==
  {[content |-> "edited", reasoning |-> NULL],
   [content |-> "edited", reasoning |-> "why"]}

FreshVault == (Note :> <<"text">>) @@ ("src/app.ts" :> <<"code">>)
InitialVaults ==
  {FreshVault,
   (Note :> <<"text", ClaudeEditsHeading, "- [[day-old]]">>) @@ ("src/app.ts" :> <<"code">>)}

NoRun == [command |-> None, file |-> None, value |-> None, selection |-> None,
          response |-> None]

\* new ClaudeService: no conversation yet, no request under way.
NoConversation ==
  /\ conversationHistory = <<>>
  /\ pending = EmptyBag
  /\ lastSettled = None

\* new CustomActionManager, then loadCustomActions(settings.customActions) with
\* the default settings: no definitions, no active actions.
NoCustomActions ==
  /\ actionDefinitions = <<>>
  /\ customActions = <<>>

\* new TerminalView: no command yet, an empty and enabled input.
TerminalOpened ==
  /\ history = <<>>
  /\ historyIndex = -1
  /\ input = ""
  /\ isProcessing = FALSE
  /\ key = None

\* The plugin is loaded on the given vault and no command is running.
PluginLoaded(vault, day) ==
  /\ enabledActions = DefaultEnabledActions
  /\ files = vault
  /\ today = day
  /\ cpc = "idle"
  /\ run = NoRun
  /\ calls = <<>>
  /\ before = None
  /\ NoConversation
  /\ NoCustomActions
  /\ TerminalOpened

----------------------------------------------------------------------------
(* The state machine.                                                      *)

\* ClaudeService.getVaultPath(): read from the adapter at every call.
getVaultPath == adapterPath

NoReq == [method |-> None, arg |-> None, operation |-> None]
NoResult == [exc |-> FALSE, ret |-> None]

Idle ==
  /\ pc' = "idle"
  /\ req' = NoReq
  /\ result' = NoResult
  /\ sanitized' = None
  /\ events' = <<>>
  /\ reply' = None

\* The plugin is loaded: ClaudeService's constructor builds the VaultBoundary,
\* whose constructor caches the adapter's path.
Init ==
  /\ adapterPath \in Roots
  /\ vaultPath = adapterPath
  /\ cwd \in Cwds
  /\ pc = "idle"
  /\ req = NoReq
  /\ result = NoResult
  /\ sanitized = None
  /\ events = <<>>
  /\ reply = None
  /\ currentPath = None
  /\ PluginLoaded(FreshVault, 1)

\* Between requests (JavaScript runs each synchronous stretch to completion).
AtRest == pc = "idle"

\* A completed direct call of a VaultBoundary method.
Called(method, p, operation, r) ==
  /\ UNCHANGED pluginVars
  /\ UNCHANGED <<chatVars, managerVars, terminalVars>>
  /\ UNCHANGED currentPath
  /\ pc' = "done"
  /\ req' = [method |-> method, arg |-> p, operation |-> operation]
  /\ result' = r
  /\ sanitized' = None
  /\ events' = <<>>
  /\ reply' = None
  /\ UNCHANGED <<adapterPath, vaultPath, cwd>>

\* isPathInVault reading the adapter's path at every call instead of the
\* root cached by the constructor.
CallIsPathInVault_LiveRoot(p) ==
  /\ AtRest
  /\ Called("isPathInVault", p, None, isPathInVault(getVaultPath, cwd, p))

CallIsPathInVault(p) ==
  /\ AtRest
  /\ Called("isPathInVault", p, None, isPathInVault(vaultPath, cwd, p))

CallSanitizePath(p) ==
  /\ AtRest
  /\ Called("sanitizePath", p, None, sanitizePath(vaultPath, cwd, p))

CallGetRelativePath(p) ==
  /\ AtRest
  /\ Called("getRelativePath", p, None, getRelativePath(vaultPath, cwd, p))

CallValidateFileOperation(p, operation) ==
  /\ AtRest
  /\ Called("validateFileOperation", p, operation,
            validateFileOperation(vaultPath, cwd, p, operation))

\* The caller has the outcome of its request; control is back in the event loop.
Finish ==
  /\ UNCHANGED pluginVars
  /\ UNCHANGED <<chatVars, managerVars, terminalVars>>
  /\ UNCHANGED currentPath
  /\ pc = "done"
  /\ Idle
  /\ UNCHANGED <<adapterPath, vaultPath, cwd>>

\* new VaultBoundary(app): the constructor reads the adapter's path.
Construct ==
  /\ UNCHANGED pluginVars
  /\ UNCHANGED <<chatVars, managerVars, terminalVars>>
  /\ UNCHANGED currentPath
  /\ AtRest
  /\ vaultPath' = adapterPath
  /\ UNCHANGED <<adapterPath, cwd>>
  /\ Idle

\* The host's adapter now points at another vault root.
Relocate(r) ==
  /\ UNCHANGED pluginVars
  /\ UNCHANGED <<chatVars, managerVars, terminalVars>>
  /\ UNCHANGED currentPath
  /\ pc \in {"idle", "read"}
  /\ r # adapterPath
  /\ adapterPath' = r
  /\ UNCHANGED <<vaultPath, cwd>>
  /\ IF pc = "read"
     THEN UNCHANGED <<pc, req, result, sanitized, events, reply>>
     ELSE Idle

\* process.chdir(d), or the working directory is removed.
Chdir(d) ==
  /\ UNCHANGED pluginVars
  /\ UNCHANGED <<chatVars, managerVars, terminalVars>>
  /\ UNCHANGED currentPath
  /\ pc \in {"idle", "read"}
  /\ d # cwd
  /\ cwd' = d
  /\ UNCHANGED <<adapterPath, vaultPath>>
  /\ IF pc = "read"
     THEN UNCHANGED <<pc, req, result, sanitized, events, reply>>
     ELSE Idle

----------------------------------------------------------------------------
(* ClaudeService.getContextForFile, step by step.                          *)

Event(kind, val, ok) == [kind |-> kind, val |-> val, ok |-> ok]


\* const sanitizedPath = this.vaultBoundary.sanitizePath(filePath);
\* if (!sanitizedPath) return 'Error: Access denied - file is outside vault boundaries'
GetContextSanitize(filePath) ==
  /\ UNCHANGED pluginVars
  /\ UNCHANGED <<chatVars, managerVars, terminalVars>>
  /\ UNCHANGED currentPath
  /\ AtRest
  /\ LET r == sanitizePath(vaultPath, cwd, filePath)
     IN /\ req' = [method |-> "getContextForFile", arg |-> filePath, operation |-> None]
        /\ result' = r
        /\ IF r.exc
           THEN /\ events' = <<Event("sanitizePath", filePath, FALSE)>>
                /\ sanitized' = None
                /\ reply' = "Threw"
                /\ pc' = "done"
           ELSE IF Falsy(r.ret)
           THEN /\ events' = <<Event("sanitizePath", filePath, FALSE)>>
                /\ sanitized' = r.ret
                /\ reply' = "AccessDeniedOutsideVault"
                /\ pc' = "done"
           ELSE /\ events' = <<Event("sanitizePath", filePath, TRUE)>>
                /\ sanitized' = r.ret
                /\ reply' = None
                /\ pc' = "validate"
  /\ UNCHANGED <<adapterPath, vaultPath, cwd>>

\* getContextForFile going on to the read whatever validateFileOperation says.
GetContextValidate_Unchecked ==
  /\ UNCHANGED pluginVars
  /\ UNCHANGED <<chatVars, managerVars, terminalVars>>
  /\ UNCHANGED currentPath
  /\ pc = "validate"
  /\ result' = validateFileOperation(vaultPath, cwd, sanitized, "read")
  /\ events' = Append(events, Event("validateFileOperation", sanitized, TRUE))
  /\ reply' = None
  /\ pc' = "lookup"
  /\ UNCHANGED <<adapterPath, vaultPath, cwd, req, sanitized>>

\* if (!this.vaultBoundary.validateFileOperation(sanitizedPath, 'read'))
\*   return 'Error: Access denied - file access not permitted'
GetContextValidate ==
  /\ UNCHANGED pluginVars
  /\ UNCHANGED <<chatVars, managerVars, terminalVars>>
  /\ UNCHANGED currentPath
  /\ pc = "validate"
  /\ LET r == validateFileOperation(vaultPath, cwd, sanitized, "read")
     IN /\ result' = r
        /\ IF r.exc
           THEN /\ events' = Append(events, Event("validateFileOperation", sanitized, FALSE))
                /\ reply' = "Threw"
                /\ pc' = "done"
           ELSE IF ~r.ret
           THEN /\ events' = Append(events, Event("validateFileOperation", sanitized, FALSE))
                /\ reply' = "AccessDeniedNotPermitted"
                /\ pc' = "done"
           ELSE /\ events' = Append(events, Event("validateFileOperation", sanitized, TRUE))
                /\ reply' = None
                /\ pc' = "lookup"
  /\ UNCHANGED <<adapterPath, vaultPath, cwd, req, sanitized>>

\* const relativePath = path.relative(this.getVaultPath(), sanitizedPath);
\* const file = this.app.vault.getAbstractFileByPath(relativePath);
\* if (file && 'extension' in file) { const content = await this.app.vault.read(file);
\* The vault holds the file or not; the read is started in the same stretch.
GetContextLookup(isFile) ==
  /\ UNCHANGED pluginVars
  /\ UNCHANGED <<chatVars, managerVars, terminalVars>>
  /\ UNCHANGED currentPath
  /\ pc = "lookup"
  /\ IF ResolveThrows(cwd, getVaultPath) \/ ResolveThrows(cwd, sanitized)
     THEN /\ events' = events
          /\ reply' = "Threw"
          /\ pc' = "done"
     ELSE LET relativePath == Relative(cwd, getVaultPath, sanitized)
          IN IF isFile
             THEN /\ events' = Append(events, Event("read", relativePath, TRUE))
                  /\ reply' = None
                  /\ pc' = "read"
             ELSE /\ events' = events
                  /\ reply' = "FileNotFound"
                  /\ pc' = "done"
  /\ UNCHANGED <<adapterPath, vaultPath, cwd, req, result, sanitized>>

\* The read resolves with content of some length, or rejects.
\* if (content.length > this.securityContext.maxFileSize) return '... File too large ...'
\* getContextForFile without the size check.
GetContextRead_NoLimit(failed, length) ==
  /\ UNCHANGED pluginVars
  /\ UNCHANGED <<chatVars, managerVars, terminalVars>>
  /\ UNCHANGED currentPath
  /\ pc = "read"
  /\ failed => length = 0
  /\ events' = Append(events, Event("settled", length, ~failed))
  /\ reply' = IF failed THEN "ErrorReadingFile" ELSE "FileContent"
  /\ pc' = "done"
  /\ UNCHANGED <<adapterPath, vaultPath, cwd, req, result, sanitized>>

GetContextRead(failed, length) ==
  /\ UNCHANGED pluginVars
  /\ UNCHANGED <<chatVars, managerVars, terminalVars>>
  /\ UNCHANGED currentPath
  /\ pc = "read"
  /\ failed => length = 0
  /\ events' = Append(events, Event("settled", length, ~failed))
  /\ reply' = IF failed THEN "ErrorReadingFile"
              ELSE IF length > maxFileSize THEN "FileTooLarge"
              ELSE "FileContent"
  /\ pc' = "done"
  /\ UNCHANGED <<adapterPath, vaultPath, cwd, req, result, sanitized>>

\* What each string getContextForFile returns is built from.
Interpolates(kind) ==
  IF kind = "FileContent" THEN {"relativePath", "content"}
  ELSE IF kind = "FileTooLarge" THEN {"relativePath", "content.length", "maxFileSize"}
  ELSE IF kind = "ErrorReadingFile" THEN {"relativePath", "error.message"}
  ELSE IF kind = "FileNotFound" THEN {"relativePath"}
  ELSE {}

Next ==
  \/ \E p \in Inputs : CallIsPathInVault(p)
  \/ \E p \in Inputs : CallSanitizePath(p)
  \/ \E p \in Inputs : CallGetRelativePath(p)
  \/ \E p \in Inputs, operation \in Operations : CallValidateFileOperation(p, operation)
  \/ Finish
  \/ Construct
  \/ \E r \in Roots : Relocate(r)
  \/ \E d \in Cwds : Chdir(d)
  \/ \E p \in Inputs : GetContextSanitize(p)
  \/ GetContextValidate
  \/ \E isFile \in BOOLEAN : GetContextLookup(isFile)
  \/ \E failed \in BOOLEAN, length \in ContentLengths : GetContextRead(failed, length)

Spec == Init /\ [][Next]_vars

----------------------------------------------------------------------------
(* The built-in actions' commands, from the editorCallback to the last     *)
(* Notice. A command runs to its next await in one step.                   *)

Call(op, arg) == [op |-> op, arg |-> arg]

\* The condition under which a command's editorCallback goes on to its action.
CommandRuns(command, file) ==
  IF command \in {"writing-assistant", "duplicate-and-edit"}
  THEN file # NULL
  ELSE enabledActions[ToggleOf(command)]

\* What an action does up to its first await of sendRequest, and whether it
\* got that far: WritingAssistantAction.execute and .duplicateAndEdit, and
\* the execute of the actions built on BaseAction.
FirstStretch(command, file, value, selection) ==
  IF command = "duplicate-and-edit"
  THEN [calls |-> <<Call("duplicateAndEdit", command),
                    Call("Notice", "Creating duplicate and editing..."),
                    Call("sendRequest", command)>>,
        sent |-> TRUE]
  ELSE IF command = "writing-assistant"
  THEN IF selection = "" /\ value = ""
       THEN [calls |-> <<Call("execute", command), Call("Notice", "No text to process")>>,
             sent |-> FALSE]
       ELSE [calls |-> <<Call("execute", command),
                         Call("Notice", "Processing with Claude..."),
                         Call("sendRequest", command)>>,
             sent |-> TRUE]
  ELSE LET content == IF command = "code-reviewer" \/ selection # ""
                      THEN selection ELSE value
       IN IF ~canExecute(ActionConfig(command), selection, file)
          THEN [calls |-> <<Call("execute", command),
                            Call("Notice", "cannot be executed in current context")>>,
                sent |-> FALSE]
          ELSE IF Len(Trim(content)) = 0
          THEN [calls |-> <<Call("execute", command), Call("Notice", "No content")>>,
                sent |-> FALSE]
          ELSE [calls |-> <<Call("execute", command),
                            Call("Notice", "Working..."),
                            Call("sendRequest", command)>>,
                sent |-> TRUE]

\* The user runs a command from the palette on the active view.
InvokeCommand(command, file, value, selection) ==
  /\ cpc = "idle"
  /\ run' = [command |-> command, file |-> file, value |-> value,
             selection |-> selection, response |-> None]
  /\ before' = files
  /\ IF CommandRuns(command, file)
     THEN LET first == FirstStretch(command, file, value, selection)
          IN /\ calls' = first.calls
             /\ cpc' = IF first.sent THEN "send" ELSE "done"
     ELSE /\ calls' = <<>>
          /\ cpc' = "done"
  /\ UNCHANGED <<enabledActions, files, today>>
  /\ UNCHANGED boundaryVars
  /\ UNCHANGED <<chatVars, managerVars, terminalVars>>

\* sendRequest settles: it resolves to a response or throws.
Respond(ok, response) ==
  /\ cpc = "send"
  /\ IF ~ok
     THEN /\ calls' = Append(calls, Call("Notice", "Error"))
          /\ cpc' = "done"
          /\ run' = run
     ELSE IF run.command = "duplicate-and-edit"
     THEN /\ run' = [run EXCEPT !.response = response]
          /\ cpc' = "create"
          /\ calls' = calls
     ELSE /\ run' = [run EXCEPT !.response = response]
          /\ calls' = calls \o
               <<Call(IF run.selection # "" THEN "editor.replaceSelection"
                      ELSE "editor.setValue", response.content),
                 Call("Notice", "Done")>>
          /\ cpc' = "done"
  /\ UNCHANGED <<enabledActions, files, today, before>>
  /\ UNCHANGED boundaryVars
  /\ UNCHANGED <<chatVars, managerVars, terminalVars>>

\* createDuplicateFile up to its await of vault.create, which throws when the
\* path is taken.
CreateDuplicate ==
  /\ cpc = "create"
  /\ LET path == duplicatePath(run.file, today)
         content == duplicateContent(run.file, run.response.content,
                                     run.response.reasoning)
     IN IF path \in DOMAIN files
        THEN /\ calls' = Append(calls, Call("Notice", "Error creating duplicate"))
             /\ cpc' = "done"
             /\ files' = files
        ELSE /\ files' = files @@ (path :> content)
             /\ calls' = Append(calls, Call("vault.create", path))
             /\ cpc' = "backlink"
  /\ UNCHANGED <<enabledActions, today, run, before>>
  /\ UNCHANGED boundaryVars
  /\ UNCHANGED <<chatVars, managerVars, terminalVars>>

\* addBacklinkToOriginal (its read or its modify may throw, which it swallows),
\* then the rest of duplicateAndEdit.
AddBacklink(fails) ==
  /\ cpc = "backlink"
  /\ LET duplicate == calls[Len(calls)].arg
     IN IF fails
        THEN /\ files' = files
             /\ calls' = calls \o <<Call("openLinkText", duplicate),
                                    Call("Notice", "Duplicate created")>>
        ELSE /\ files' = [files EXCEPT ![run.file] = withBacklink(@, duplicate)]
             /\ calls' = calls \o <<Call("vault.modify", run.file),
                                    Call("openLinkText", duplicate),
                                    Call("Notice", "Duplicate created")>>
  /\ cpc' = "done"
  /\ UNCHANGED <<enabledActions, today, run, before>>
  /\ UNCHANGED boundaryVars
  /\ UNCHANGED <<chatVars, managerVars, terminalVars>>

\* The command has run to its end.
FinishRun ==
  /\ cpc = "done"
  /\ cpc' = "idle"
  /\ run' = NoRun
  /\ calls' = <<>>
  /\ before' = None
  /\ UNCHANGED <<enabledActions, files, today>>
  /\ UNCHANGED boundaryVars
  /\ UNCHANGED <<chatVars, managerVars, terminalVars>>

\* The user flips a toggle of the settings tab's Actions section.
Toggle(action) ==
  /\ enabledActions' = [enabledActions EXCEPT ![action] = ~@]
  /\ Cardinality({a \in Toggles : enabledActions'[a] # DefaultEnabledActions[a]})
       <= MaxChanged
  /\ UNCHANGED <<files, today, cpc, run, calls, before>>
  /\ UNCHANGED boundaryVars
  /\ UNCHANGED <<chatVars, managerVars, terminalVars>>

PluginInit ==
  /\ adapterPath = "/vault"
  /\ vaultPath = adapterPath
  /\ cwd = "/"
  /\ pc = "idle"
  /\ req = NoReq
  /\ result = NoResult
  /\ sanitized = None
  /\ events = <<>>
  /\ reply = None
  /\ currentPath = None
  /\ \E vault \in InitialVaults, day \in 1..MaxDays : PluginLoaded(vault, day)

PluginNext ==
  \/ \E command \in Commands, file \in ViewFiles, value \in EditorValues,
        selection \in Selections : InvokeCommand(command, file, value, selection)
  \/ \E ok \in BOOLEAN, response \in Responses : Respond(ok, response)
  \/ CreateDuplicate
  \/ \E fails \in BOOLEAN : AddBacklink(fails)
  \/ FinishRun
  \/ \E action \in Toggles : Toggle(action)

PluginSpec == PluginInit /\ [][PluginNext]_vars

----------------------------------------------------------------------------
(* ClaudeService.findClaudeConfig, step by step. The service reads the     *)
(* adapter's path once, before the loop; the adapter's path does not       *)
(* change while a search is under way.                                     *)

\* path.join(currentPath, '.claude', 'config.json')
configPathOf(dir) == Join(Join(dir, ".claude"), "config.json")

\* What happens at one level once the config path is validated: there is no
\* file, pathExists or readJson throws, the file parses to a config of
\* admissible size, or to one that is too large.
ProbeOutcomes == {"absent", "throws", "config", "tooLarge"}

\* findClaudeConfig returns (null, or the config found at a path).
FindConfigReturn(value) ==
  /\ reply' = value
  /\ currentPath' = None
  /\ pc' = "done"

\* Lines 281-288: sanitize the start path.
FindConfigStart(startPath) ==
  /\ AtRest
  /\ LET r == sanitizePath(vaultPath, cwd, startPath)
     IN /\ req' = [method |-> "findClaudeConfig", arg |-> startPath, operation |-> None]
        /\ result' = r
        /\ events' = <<>>
        /\ IF r.exc
           THEN /\ sanitized' = None
                /\ FindConfigReturn("Threw")
           ELSE IF Falsy(r.ret)
           THEN /\ sanitized' = r.ret
                /\ FindConfigReturn(NULL)
           ELSE /\ sanitized' = r.ret
                /\ currentPath' = r.ret
                /\ reply' = None
                /\ pc' = "search"
  /\ UNCHANGED <<adapterPath, vaultPath, cwd>>
  /\ UNCHANGED pluginVars
  /\ UNCHANGED <<chatVars, managerVars, terminalVars>>

\* The loop test and the validation of this level's config path, with the
\* validation taken as passed.
FindConfigValidate_Unvalidated ==
  /\ pc = "search"
  /\ IF ~StartsWith(currentPath, getVaultPath)
     THEN /\ FindConfigReturn(NULL)
          /\ UNCHANGED <<result, events>>
     ELSE /\ result' = Return(TRUE)
          /\ events' = events
          /\ pc' = "probe"
          /\ UNCHANGED <<reply, currentPath>>
  /\ UNCHANGED <<adapterPath, vaultPath, cwd, req, sanitized>>
  /\ UNCHANGED pluginVars
  /\ UNCHANGED <<chatVars, managerVars, terminalVars>>

\* Lines 290-297: the loop test and the validation of this level's config path.
FindConfigValidate ==
  /\ pc = "search"
  /\ IF ~StartsWith(currentPath, getVaultPath)
     THEN /\ FindConfigReturn(NULL)
          /\ UNCHANGED <<result, events>>
     ELSE LET configPath == configPathOf(currentPath)
              v == validateFileOperation(vaultPath, cwd, configPath, "read")
          IN /\ result' = v
             /\ events' = Append(events, Event("validateFileOperation", configPath,
                                               v = Return(TRUE)))
             /\ IF v.exc THEN FindConfigReturn("Threw")
                ELSE IF ~v.ret THEN FindConfigReturn(NULL)
                ELSE /\ pc' = "probe"
                     /\ UNCHANGED <<reply, currentPath>>
  /\ UNCHANGED <<adapterPath, vaultPath, cwd, req, sanitized>>
  /\ UNCHANGED pluginVars
  /\ UNCHANGED <<chatVars, managerVars, terminalVars>>

\* Lines 299-321: look for the file, read it, or go on with the parent.
FindConfigProbe(outcome) ==
  /\ pc = "probe"
  /\ LET configPath == configPathOf(currentPath)
         parentPath == dirname(currentPath)
     IN /\ events' = Append(events, Event("probe", configPath, outcome))
        /\ IF outcome = "config" THEN FindConfigReturn(configPath)
           ELSE IF outcome = "tooLarge" THEN FindConfigReturn(NULL)
           ELSE IF parentPath = currentPath \/ ~StartsWith(parentPath, getVaultPath)
           THEN FindConfigReturn(NULL)
           ELSE /\ currentPath' = parentPath
                /\ pc' = "search"
                /\ reply' = reply
  /\ UNCHANGED <<adapterPath, vaultPath, cwd, req, result, sanitized>>
  /\ UNCHANGED pluginVars
  /\ UNCHANGED <<chatVars, managerVars, terminalVars>>

ConfigInit ==
  /\ Init
  /\ cwd \in {"/", CwdGone}

ConfigNext ==
  \/ \E startPath \in Inputs : FindConfigStart(startPath)
  \/ FindConfigValidate
  \/ \E outcome \in ProbeOutcomes : FindConfigProbe(outcome)
  \/ Finish
  \/ \E r \in Roots : Relocate(r)

ConfigSpec == ConfigInit /\ [][ConfigNext]_vars

----------------------------------------------------------------------------
(* ClaudeService's conversation: sendRequest (directly or through          *)
(* sendTerminalCommand), from the call to the await of requestUrl and from  *)
(* the API's answer to the return, and the session resets.                 *)

MaxPending == 2

\* sendRequest: conversationHistory is cut to its last 20 entries
historyLimit == 20

\* The requests made of the service: a terminal command, sent through
\* sendTerminalCommand, and an action's request, sent through sendRequest.
Requests ==
  {[action |-> "terminal", prompt |-> "command"],
   [action |-> "writing-assistant", prompt |-> "text"]}

Message(role, content) == [role |-> role, content |-> content]

\* buildUserMessage(request), for a request without context or file
buildUserMessage(request) == request.prompt

\* apiResponse.content[0]?.text, the API's answer to a user message
responseTextFor(userMessage) == "re: " \o userMessage

\* seq.slice(-n)
SliceLast(seq, n) ==
  IF Len(seq) <= n THEN seq ELSE SubSeq(seq, Len(seq) - n + 1, Len(seq))

\* What requestUrl may fail with; "none": it resolves to a well-formed answer.
ApiErrors == {"none", "401", "429", "other"}

\* How a failed call ends for its caller: sendRequest rethrows,
\* sendTerminalCommand returns the 'Error: ...' string.
Failed(request) == IF request.action = "terminal" THEN "errorString" ELSE "throws"

\* A call under way.
Pending(request, stale) == [request |-> request, stale |-> stale]

\* sendRequest up to the await of requestUrl; without an API key it throws
\* before the request is made.
SendRequest(request, hasKey) ==
  /\ BagCardinality(pending) < MaxPending
  /\ IF ~hasKey
     THEN /\ lastSettled' = Failed(request)
          /\ pending' = pending
     ELSE /\ pending' = pending (+) SetToBag({Pending(request, FALSE)})
          /\ lastSettled' = lastSettled
  /\ UNCHANGED conversationHistory
  /\ UNCHANGED boundaryVars
  /\ UNCHANGED pluginVars
  /\ UNCHANGED <<managerVars, terminalVars>>

\* requestUrl settles and sendRequest runs to its end, keeping the oldest
\* entries when the history is cut.
Settle_KeepOldest(call, error) ==
  /\ BagIn(call, pending)
  /\ pending' = pending (-) SetToBag({call})
  /\ IF error = "none"
     THEN LET userMessage == buildUserMessage(call.request)
              grown == conversationHistory
                         \o <<Message("user", userMessage),
                              Message("assistant", responseTextFor(userMessage))>>
          IN /\ conversationHistory' = SubSeq(grown, 1, IF Len(grown) > historyLimit
                                                       THEN historyLimit ELSE Len(grown))
             /\ lastSettled' = "response"
     ELSE /\ conversationHistory' = conversationHistory
          /\ lastSettled' = Failed(call.request)
  /\ UNCHANGED boundaryVars
  /\ UNCHANGED pluginVars
  /\ UNCHANGED <<managerVars, terminalVars>>

\* requestUrl settles and sendRequest runs to its end, recording the exchange
\* before it looks at the outcome.
Settle_RecordFirst(call, error) ==
  /\ BagIn(call, pending)
  /\ pending' = pending (-) SetToBag({call})
  /\ LET userMessage == buildUserMessage(call.request)
     IN conversationHistory' =
          SliceLast(conversationHistory
                      \o <<Message("user", userMessage),
                           Message("assistant", responseTextFor(userMessage))>>,
                    historyLimit)
  /\ lastSettled' = IF error = "none" THEN "response" ELSE Failed(call.request)
  /\ UNCHANGED boundaryVars
  /\ UNCHANGED pluginVars
  /\ UNCHANGED <<managerVars, terminalVars>>

\* requestUrl settles and sendRequest runs to its end.
Settle(call, error) ==
  /\ BagIn(call, pending)
  /\ pending' = pending (-) SetToBag({call})
  /\ IF error = "none"
     THEN LET userMessage == buildUserMessage(call.request)
          IN /\ conversationHistory' =
                  SliceLast(conversationHistory
                              \o <<Message("user", userMessage),
                                   Message("assistant", responseTextFor(userMessage))>>,
                            historyLimit)
             /\ lastSettled' = "response"
     ELSE /\ conversationHistory' = conversationHistory
          /\ lastSettled' = Failed(call.request)
  /\ UNCHANGED boundaryVars
  /\ UNCHANGED pluginVars
  /\ UNCHANGED <<managerVars, terminalVars>>

\* this.conversationHistory = [] ; the calls under way stay under way.
ResetSession ==
  /\ conversationHistory' = <<>>
  /\ pending' = [call \in {Pending(c.request, TRUE) : c \in BagToSet(pending)} |->
                   CopiesIn(call, pending) + CopiesIn(Pending(call.request, FALSE), pending)]
  /\ lastSettled' = None
  /\ UNCHANGED boundaryVars
  /\ UNCHANGED pluginVars
  /\ UNCHANGED <<managerVars, terminalVars>>

Cleanup == ResetSession

StartTerminalSession == ResetSession

ClearConversationHistory == ResetSession

ChatInit ==
  /\ Init
  /\ adapterPath = "/vault"
  /\ cwd = "/"

ChatNext ==
  \/ \E request \in Requests, hasKey \in BOOLEAN : SendRequest(request, hasKey)
  \/ \E call \in BagToSet(pending), error \in ApiErrors : Settle(call, error)
  \/ Cleanup
  \/ StartTerminalSession
  \/ ClearConversationHistory

ChatSpec == ChatInit /\ [][ChatNext]_vars

----------------------------------------------------------------------------
(* CustomActionManager: the definitions it was given, in order, and the    *)
(* map of the active actions by id. The definitions come from the settings *)
(* tab: CustomActionModal.createAction derives the id from the name, the   *)
(* Enabled toggle sets the flag. Of a definition the id, the name and the  *)
(* flag are kept.                                                          *)

MaxDefinitions == 3

UpperCase == "ABCDEFGHIJKLMNOPQRSTUVWXYZ"
LowerCase == "abcdefghijklmnopqrstuvwxyz"
Digits == "0123456789"

\* String.prototype.indexOf for one character, counted from 1; 0 when absent.
IndexOf(s, ch) ==
  IF \E i \in 1..Len(s) : Char(s, i) = ch
  THEN CHOOSE i \in 1..Len(s) : Char(s, i) = ch /\ \A j \in 1..(i - 1) : Char(s, j) # ch
  ELSE 0

\* String.prototype.toLowerCase
RECURSIVE toLowerCase(_)
toLowerCase(s) ==
  IF Len(s) = 0 THEN ""
  ELSE LET ch == Char(s, 1)
           i == IndexOf(UpperCase, ch)
       IN (IF i > 0 THEN Char(LowerCase, i) ELSE ch) \o toLowerCase(SubSeq(s, 2, Len(s)))

\* .replace(/[^a-z0-9]/g, '-')
RECURSIVE replaceNonAlphanumeric(_)
replaceNonAlphanumeric(s) ==
  IF Len(s) = 0 THEN ""
  ELSE LET ch == Char(s, 1)
       IN (IF IndexOf(LowerCase, ch) > 0 \/ IndexOf(Digits, ch) > 0 THEN ch ELSE "-")
            \o replaceNonAlphanumeric(SubSeq(s, 2, Len(s)))

\* createAction: the definition made from what the modal's name field holds
\* (the names entered below are not blank, so its validation passes).
createAction(nameInput) ==
  LET name == Trim(nameInput)
  IN [id |-> replaceNonAlphanumeric(toLowerCase(name)), name |-> name, enabled |-> TRUE]

ActionNames == {"Fix It", "fix-it", "Sum"}

\* What the settings tab can hold: a created definition, enabled or not.
Definitions ==
  {[createAction(name) EXCEPT !.enabled = enabled] : name \in ActionNames, enabled \in BOOLEAN}

DefinitionLists == UNION {[1..n -> Definitions] : n \in 0..MaxDefinitions}

ActionIds == {definition.id : definition \in Definitions}

\* Map.prototype.set and Map.prototype.delete
MapSet(map, k, v) == [x \in DOMAIN map \cup {k} |-> IF x = k THEN v ELSE map[x]]
MapDelete(map, k) == [x \in DOMAIN map \ {k} |-> map[x]]

\* The loop of loadCustomActions over the definitions, from a cleared map.
RECURSIVE SetEnabled(_, _)
SetEnabled(map, definitions) ==
  IF Len(definitions) = 0 THEN map
  ELSE SetEnabled(IF Head(definitions).enabled
                  THEN MapSet(map, Head(definitions).id, Head(definitions))
                  ELSE map,
                  Tail(definitions))

\* Array.prototype.findIndex(d => d.id === id), counted from 1; 0 for -1.
FindIndex(definitions, id) ==
  IF \E i \in 1..Len(definitions) : definitions[i].id = id
  THEN CHOOSE i \in 1..Len(definitions) :
         definitions[i].id = id /\ \A j \in 1..(i - 1) : definitions[j].id # id
  ELSE 0

LoadCustomActions(definitions) ==
  /\ actionDefinitions' = definitions
  /\ customActions' = SetEnabled(<<>>, definitions)
  /\ UNCHANGED <<boundaryVars, pluginVars, chatVars, terminalVars>>

AddCustomAction(definition) ==
  LET existingIndex == FindIndex(actionDefinitions, definition.id)
  IN /\ existingIndex > 0 \/ Len(actionDefinitions) < MaxDefinitions
     /\ actionDefinitions' =
          IF existingIndex > 0
          THEN [actionDefinitions EXCEPT ![existingIndex] = definition]
          ELSE Append(actionDefinitions, definition)
     /\ customActions' = IF definition.enabled
                         THEN MapSet(customActions, definition.id, definition)
                         ELSE MapDelete(customActions, definition.id)
     /\ UNCHANGED <<boundaryVars, pluginVars, chatVars, terminalVars>>

RemoveCustomAction(id) ==
  /\ actionDefinitions' = SelectSeq(actionDefinitions, LAMBDA d : d.id # id)
  /\ customActions' = MapDelete(customActions, id)
  /\ UNCHANGED <<boundaryVars, pluginVars, chatVars, terminalVars>>

UpdateActionDefinitions(definitions) == LoadCustomActions(definitions)

ManagerInit == Init /\ adapterPath = "/vault" /\ cwd = "/"

ManagerNext ==
  \/ \E definitions \in DefinitionLists : LoadCustomActions(definitions)
  \/ \E definition \in Definitions : AddCustomAction(definition)
  \/ \E id \in ActionIds : RemoveCustomAction(id)
  \/ \E definitions \in DefinitionLists : UpdateActionDefinitions(definitions)

ManagerSpec == ManagerInit /\ [][ManagerNext]_vars

----------------------------------------------------------------------------
(* TerminalView: the command history and its cursor. historyIndex counts   *)
(* from 0 as in the code, so history[historyIndex] of the code is          *)
(* history[historyIndex + 1] here. While a command is processed the input  *)
(* is disabled and receives no key.                                        *)

MaxHistory == 3

TypedTexts == {"/help", " hi ", "  "}

Min(a, b) == IF a <= b THEN a ELSE b
Max(a, b) == IF a >= b THEN a ELSE b

\* The user edits the text of the input; the keydown handler takes no action
\* on a character key.
EditInput(text) ==
  /\ ~isProcessing
  /\ input' = text
  /\ key' = "Character"
  /\ UNCHANGED <<history, historyIndex, isProcessing>>
  /\ UNCHANGED <<boundaryVars, pluginVars, chatVars, managerVars>>

\* Enter: handleCommand up to its first await.
HandleCommand ==
  LET command == Trim(input)
  IN /\ ~isProcessing
     /\ key' = "Enter"
     /\ IF command = ""
        THEN UNCHANGED <<history, historyIndex, input, isProcessing>>
        ELSE /\ Len(history) < MaxHistory
             /\ history' = Append(history, command)
             /\ historyIndex' = Len(history')
             /\ input' = ""
             /\ isProcessing' = TRUE
     /\ UNCHANGED <<boundaryVars, pluginVars, chatVars, managerVars>>

\* handleCommand's finally block, once the command has been processed.
CommandProcessed ==
  /\ isProcessing
  /\ isProcessing' = FALSE
  /\ UNCHANGED <<history, historyIndex, input, key>>
  /\ UNCHANGED <<boundaryVars, pluginVars, chatVars, managerVars>>

\* As navigateHistory, but without the lower clamp.
NavigateHistory_NoMax(direction) ==
  IF Len(history) = 0
  THEN UNCHANGED <<history, historyIndex, input>>
  ELSE /\ historyIndex' = Min(Len(history), historyIndex + direction)
       /\ input' = IF historyIndex' >= 0 /\ historyIndex' < Len(history)
                   THEN history[historyIndex' + 1]
                   ELSE NotAString
       /\ UNCHANGED history

NavigateHistory(direction) ==
  IF Len(history) = 0
  THEN UNCHANGED <<history, historyIndex, input>>
  ELSE /\ historyIndex' = Max(0, Min(Len(history), historyIndex + direction))
       /\ input' = IF historyIndex' < Len(history)
                   THEN history[historyIndex' + 1]
                   ELSE ""
       /\ UNCHANGED history

ArrowUp ==
  /\ ~isProcessing
  /\ key' = "ArrowUp"
  /\ NavigateHistory(-1)
  /\ UNCHANGED isProcessing
  /\ UNCHANGED <<boundaryVars, pluginVars, chatVars, managerVars>>

ArrowDown ==
  /\ ~isProcessing
  /\ key' = "ArrowDown"
  /\ NavigateHistory(1)
  /\ UNCHANGED isProcessing
  /\ UNCHANGED <<boundaryVars, pluginVars, chatVars, managerVars>>

TerminalInit == Init /\ adapterPath = "/vault" /\ cwd = "/"

TerminalNext ==
  \/ \E text \in TypedTexts : EditInput(text)
  \/ HandleCommand
  \/ CommandProcessed
  \/ ArrowUp
  \/ ArrowDown

TerminalSpec == TerminalInit /\ [][TerminalNext]_vars

----------------------------------------------------------------------------
(* What the claims speak of.                                               *)

\* abs is root itself or lies below it: root, then a separator.
Within(abs, root) == abs = root \/ StartsWith(abs, root \o "/")

\* A direct call of the method has completed.
Done(method) == pc = "done" /\ req.method = method

\* A name that starts with a dot and is not the allow-listed directory.
HiddenName(seg) == Len(seg) > 0 /\ Char(seg, 1) = "." /\ seg # ".claude"

\* A relative candidate made of ordinary name segments only.
OrdinaryRelative(p) ==
  /\ IsString(p)
  /\ Len(p) > 0
  /\ ReplaceChar(p, "\\", "/") = p
  /\ LET segs == Split(p) IN \A i \in 1..Len(segs) : segs[i] \notin {"", ".", ".."}

----------------------------------------------------------------------------
(* C1..C10                                                                 *)

\* C1: whenever isPathInVault(s) returns true, the resolved s is the resolved
\* root or begins with the resolved root followed by a separator.
C1_ContainmentSoundness ==
  (Done("isPathInVault") /\ ~result.exc /\ result.ret)
    => Within(Resolve(cwd, req.arg), Resolve(cwd, vaultPath))

\* C2: a non-null result of sanitizePath is the vault root or a descendant of
\* it, with a separator boundary.
C2_SanitizedInsideVault ==
  (Done("sanitizePath") /\ ~result.exc /\ result.ret # NULL)
    => Within(Resolve(cwd, result.ret), Resolve(cwd, vaultPath))

\* C3: validateFileOperation denies, for every operation, every path whose
\* vault-relative form starts with a hidden segment other than .claude; the
\* vault-relative candidates .git/config, .env, .obsidian/config.json and
\* .ssh/known_hosts are denied.
C3_HiddenDenied ==
  (Done("validateFileOperation") /\ ~result.exc)
    => /\ \/ ResolveThrows(cwd, req.arg)
          \/ ~Within(Resolve(cwd, req.arg), Resolve(cwd, vaultPath))
          \/ ~HiddenName(Head(Split(Relative(cwd, vaultPath, req.arg))))
          \/ result.ret = FALSE
       /\ req.arg \in SensitiveFiles => result.ret = FALSE

\* C4: validateFileOperation('.claude/config.json', 'read'), the candidate
\* being relative to the vault root, returns true.
C4_ClaudeConfigAllowed ==
  (Done("validateFileOperation") /\ cwd # CwdGone /\ req.arg = ".claude/config.json"
     /\ req.operation = "read")
    => (~result.exc /\ result.ret = TRUE)

\* C5: a path validateFileOperation accepts lies below the root, is in no
\* blockedPaths entry, and has no hidden segment other than .claude at any depth.
C5_AcceptedAtEveryDepth ==
  (Done("validateFileOperation") /\ ~result.exc /\ result.ret)
    => LET abs == Resolve(cwd, req.arg)
           root == Resolve(cwd, vaultPath)
       IN /\ Within(abs, root) /\ abs # root
          /\ \A b \in blockedPaths(vaultPath) : ~Within(abs, b)
          /\ LET segs == Split(Relative(cwd, vaultPath, req.arg))
             IN \A i \in 1..Len(segs) : ~HiddenName(segs[i])

\* What a method answers when it denies.
Denial(method) ==
  IF method \in {"isPathInVault", "validateFileOperation"}
  THEN Return(FALSE) ELSE Return(NULL)

\* The resolution the method performs on its candidate fails: the candidate is
\* not a string, or it has to be resolved against a working directory that is
\* gone (sanitizePath joins a relative candidate onto the root instead).
ResolutionFails(method, p) ==
  IF method = "sanitizePath" THEN ~IsString(p) ELSE ResolveThrows(cwd, p)

VaultBoundaryMethods ==
  {"isPathInVault", "sanitizePath", "getRelativePath", "validateFileOperation"}

\* C6: no VaultBoundary method lets an exception out, and a candidate whose
\* resolution fails gets false (isPathInVault, validateFileOperation) or null
\* (sanitizePath, getRelativePath).
C6_FailClosed ==
  (pc = "done" /\ req.method \in VaultBoundaryMethods)
    => /\ ~result.exc
       /\ ResolutionFails(req.method, req.arg) => result = Denial(req.method)

C6_Witness ==
  /\ Done("getRelativePath")
  /\ ResolutionFails(req.method, req.arg)
  /\ result = Return(NULL)

\* C7: getContextForFile starts the vault read only after, in the same call,
\* sanitizePath(filePath) gave a path and validateFileOperation(that path,
\* 'read') gave true; a failed check ends the call with an access-denied reply
\* and no read.
C7_AuthorizeBeforeRead ==
  req.method = "getContextForFile"
    => /\ \A i \in 1..Len(events) :
            events[i].kind = "read"
              => /\ i = 3
                 /\ events[1] = Event("sanitizePath", req.arg, TRUE)
                 /\ events[2] = Event("validateFileOperation", sanitized, TRUE)
                 /\ ~Falsy(sanitized)
       /\ pc \in {"validate", "lookup"}
            => sanitizePath(vaultPath, cwd, req.arg) = Return(sanitized)
       /\ pc = "lookup"
            => validateFileOperation(vaultPath, cwd, sanitized, "read") = Return(TRUE)
       /\ (Len(events) = 1 /\ ~events[1].ok)
            => (pc = "done" /\ reply = "AccessDeniedOutsideVault")
       /\ (Len(events) = 2 /\ ~events[2].ok)
            => (pc = "done" /\ reply = "AccessDeniedNotPermitted")
       /\ reply \in {"AccessDeniedOutsideVault", "AccessDeniedNotPermitted"}
            => \A i \in 1..Len(events) : events[i].kind # "read"

C7_Witness ==
  /\ req.method = "getContextForFile"
  /\ pc = "read"
  /\ Len(events) = 3
  /\ events[3].kind = "read"

\* C8: with the root /tmp/test-vault and a working directory not inside it,
\* isPathInVault is false for the outside paths of the security test.
C8_OutsideRejected ==
  (Done("isPathInVault") /\ vaultPath = "/tmp/test-vault"
     /\ cwd # CwdGone /\ ~Within(cwd, vaultPath) /\ req.arg \in OutsidePaths)
    => (~result.exc /\ result.ret = FALSE)

\* C9: for a relative candidate of ordinary name segments, sanitizePath returns
\* the root joined with the candidate, a descendant of the root.
C9_VaultRelativeAccepted ==
  (Done("sanitizePath") /\ OrdinaryRelative(req.arg))
    => /\ result = Return(vaultPath \o "/" \o req.arg)
       /\ Within(result.ret, vaultPath)
       /\ result.ret # vaultPath

C9_Witness ==
  /\ Done("sanitizePath")
  /\ req.arg = "notes/example.md"
  /\ result = Return("/tmp/test-vault/notes/example.md")

\* C10: sanitizePath applied to its own non-null result returns that result,
\* and again on any further application.
C10_Idempotent ==
  (Done("sanitizePath") /\ ~result.exc /\ result.ret # NULL)
    => LET a == result.ret
           again == sanitizePath(vaultPath, cwd, a)
       IN /\ again = Return(a)
          /\ sanitizePath(vaultPath, cwd, again.ret) = Return(a)

C10_Witness ==
  /\ Done("sanitizePath")
  /\ ~result.exc
  /\ result.ret # NULL
  /\ result.ret # req.arg
  /\ sanitizePath(vaultPath, cwd, result.ret) = Return(result.ret)

----------------------------------------------------------------------------
(* C11..C20                                                                *)

\* A path in normal form: absolute, no "." or ".." segment, no repeated
\* separator (a single trailing separator is let through).
InNormalForm(p) ==
  /\ IsAbsolute(p)
  /\ LET segs == Split(p)
     IN \A i \in 2..Len(segs) :
          /\ segs[i] \notin {".", ".."}
          /\ segs[i] = "" => i = Len(segs)

\* C11: for a path a that sanitizePath returned, getRelativePath(a) is not
\* null, and joined back onto the root it gives the normalized absolute path
\* that a denotes.
C11_RelativeRoundTrip ==
  (Done("sanitizePath") /\ ~result.exc /\ result.ret # NULL)
    => LET a == result.ret
           rel == getRelativePath(vaultPath, cwd, a)
       IN /\ ~rel.exc
          /\ rel.ret # NULL
          /\ Join(vaultPath, rel.ret) = Resolve(cwd, a)

C11_Witness ==
  /\ Done("sanitizePath")
  /\ ~result.exc
  /\ result.ret # NULL
  /\ Within(result.ret, vaultPath)
  /\ getRelativePath(vaultPath, cwd, result.ret) = Return("a/.git")

Answer(vp, dir, c) ==
  IF c.method = "isPathInVault" THEN isPathInVault(vp, dir, c.arg)
  ELSE IF c.method = "sanitizePath" THEN sanitizePath(vp, dir, c.arg)
  ELSE IF c.method = "getRelativePath" THEN getRelativePath(vp, dir, c.arg)
  ELSE validateFileOperation(vp, dir, c.arg, c.operation)

\* C14: only the constructor sets the stored root, and the result of every
\* call is the one the stored root gives, whatever the adapter's path is now.
C14_RootCapturedOnce ==
  [][/\ vaultPath' # vaultPath => (pc = "idle" /\ pc' = "idle" /\ vaultPath' = adapterPath)
     /\ (pc' = "done" /\ req'.method \in VaultBoundaryMethods)
          => (vaultPath' = vaultPath /\ result' = Answer(vaultPath, cwd', req'))]_vars

C14_Witness ==
  /\ Done("isPathInVault")
  /\ adapterPath # vaultPath
  /\ result = Return(TRUE)
  /\ isPathInVault(adapterPath, cwd, req.arg) = Return(FALSE)

\* C15: validateFileOperation gives the same boolean for read, write and
\* delete.
C15_OperationIndependent ==
  (Done("validateFileOperation") /\ ~result.exc)
    => \A operation \in Operations :
         validateFileOperation(vaultPath, cwd, req.arg, operation) = result

C15_Witness ==
  /\ Done("validateFileOperation")
  /\ req.operation = "delete"
  /\ result = Return(TRUE)
  /\ StartsWith(Relative(cwd, vaultPath, req.arg), ClaudeDir)

C20_RelativeStaysInVault ==
  (Done("getRelativePath") /\ ~result.exc)
    => /\ isPathInVault(vaultPath, cwd, req.arg) = Return(FALSE) => result.ret = NULL
       /\ result.ret # NULL
            => (~IsAbsolute(result.ret) /\ Head(Split(result.ret)) # "..")

----------------------------------------------------------------------------
(* C17..C19: the built-in actions' commands (PluginSpec).                  *)

\* C17: Duplicate & Edit is non-destructive: when a run of duplicateAndEdit
\* has ended, by success or by failure, every file the vault held before the
\* run has the content it had then, and the only file created is the
\* timestamped duplicate.
C17_OriginalUntouched ==
  (cpc = "done" /\ run.command = "duplicate-and-edit")
    => /\ \A p \in DOMAIN before : p \in DOMAIN files /\ files[p] = before[p]
       /\ \A p \in DOMAIN files \ DOMAIN before : p = duplicatePath(run.file, today)

\* The commands named after the six built-in actions.
ActionCommands == Commands \ {"duplicate-and-edit"}


\* C18: a built-in action toggled off is never run: invoking the command of
\* an action whose enabledActions flag is false calls neither the action's
\* execute nor sendRequest.
C18_DisabledNeverRuns ==
  [][(/\ cpc = "idle"
      /\ cpc' # "idle"
      /\ run'.command \in ActionCommands
      /\ ~enabledActions[ToggleOf(run'.command)])
       => \A i \in 1..Len(calls') : calls'[i].op \notin {"execute", "sendRequest"}]_vars

\* C19: Therapist Mode can be enabled: with enabledActions.therapistMode
\* true, invoking the therapist-mode command on a markdown file with
\* non-empty content gets to claudeService.sendRequest.
C19_TherapistReachesSend ==
  [][(/\ cpc = "idle"
      /\ cpc' # "idle"
      /\ run'.command = "therapist-mode"
      /\ enabledActions.therapistMode
      /\ run'.file # NULL
      /\ TFile(run'.file).extension = "md"
      /\ Len(Trim(run'.value)) > 0)
       => \E i \in 1..Len(calls') : calls'[i] = Call("sendRequest", "therapist-mode")]_vars

----------------------------------------------------------------------------
(* C21..C23: validateFileOperation's rules.                                *)

\* The relative form validateFileOperation computed for its candidate.
ValidatedRelative ==
  getRelativePath(vaultPath, cwd, req.arg).ret

\* A completed validateFileOperation call got as far as its rules on the
\* relative form.
ValidateReached ==
  /\ Done("validateFileOperation")
  /\ ~result.exc
  /\ isPathInVault(vaultPath, cwd, req.arg) = Return(TRUE)
  /\ ~getRelativePath(vaultPath, cwd, req.arg).exc
  /\ ValidatedRelative # NULL

\* C21: validateFileOperation returns true for a path inside the vault whose
\* relative form begins with '.obsidian/plugins/triple-crown/', and false for
\* every other path whose relative form begins with '.obsidian/'.
C21_PluginDirExempt ==
  ValidateReached
    => /\ StartsWith(ValidatedRelative, PluginDir) => result.ret = TRUE
       /\ (StartsWith(ValidatedRelative, ObsidianDir)
             /\ ~StartsWith(ValidatedRelative, PluginDir)) => result.ret = FALSE

\* C22: for every absolute path p, if validateFileOperation(p, op) returns
\* true then p resolves to a strict descendant of the vault root; a sibling
\* whose name extends the root's name is denied, its relative form beginning
\* with '..'.
C22_SoundForAbsolute ==
  (Done("validateFileOperation") /\ IsString(req.arg) /\ IsAbsolute(req.arg))
    => /\ result = Return(TRUE)
            => StartsWith(Resolve(cwd, req.arg), vaultPath \o "/")
       /\ (isPathInVault(vaultPath, cwd, req.arg) = Return(TRUE)
             /\ ~Within(Resolve(cwd, req.arg), vaultPath))
            => (result = Return(FALSE) /\ StartsWith(ValidatedRelative, ".."))

C22_Witness ==
  /\ Done("validateFileOperation")
  /\ req.arg = "/vaultx/file.md"
  /\ vaultPath = "/vault"
  /\ isPathInVault(vaultPath, cwd, req.arg) = Return(TRUE)
  /\ ValidatedRelative = "../vaultx/file.md"
  /\ result = Return(FALSE)

\* C23: when the candidate resolves exactly to the vault root, the relative
\* path is the empty string and validateFileOperation returns false, for
\* every operation.
C23_RootDenied ==
  (/\ Done("validateFileOperation")
   /\ IsString(req.arg)
   /\ ~ResolveThrows(cwd, req.arg)
   /\ Resolve(cwd, req.arg) = vaultPath)
    => /\ getRelativePath(vaultPath, cwd, req.arg) = Return("")
       /\ \A operation \in Operations :
            validateFileOperation(vaultPath, cwd, req.arg, operation) = Return(FALSE)
       /\ result = Return(FALSE)

C23_Witness ==
  /\ Done("validateFileOperation")
  /\ req.arg = "/vault/a/.."
  /\ vaultPath = "/vault"
  /\ req.operation = "write"
  /\ getRelativePath(vaultPath, cwd, req.arg) = Return("")
  /\ result = Return(FALSE)

----------------------------------------------------------------------------
(* C24, C25: findClaudeConfig (ConfigSpec).                                *)

ConfigSuffix == "/.claude/config.json"

\* The directory a config path lies in.
ConfigDirOf(configPath) == SubSeq(configPath, 1, Len(configPath) - Len(ConfigSuffix))

IsProbe(e) == e.kind = "probe"

\* How many levels the search has probed on disk so far.
Probed == Cardinality({i \in 1..Len(events) : IsProbe(events[i])})

\* C24: findClaudeConfig ends after finitely many iterations (each level's
\* path is shorter than the one before, so the levels probed never outnumber
\* the characters of the sanitized start path); every config path it probes
\* on disk passed validateFileOperation(configPath, 'read') in that iteration
\* and lies in the vault root or below it; a start path sanitizePath rejects
\* causes no file-system access and returns null.
C24_SearchBoundedAndInside ==
  req.method = "findClaudeConfig"
    => /\ \A i \in 1..Len(events) :
            IsProbe(events[i])
              => /\ i > 1
                 /\ events[i - 1] = Event("validateFileOperation", events[i].val, TRUE)
                 /\ validateFileOperation(vaultPath, cwd, events[i].val, "read")
                      = Return(TRUE)
                 /\ events[i].val = ConfigDirOf(events[i].val) \o ConfigSuffix
                 /\ Within(ConfigDirOf(events[i].val), vaultPath)
       /\ pc \in {"search", "probe"}
            => (~Falsy(sanitized) /\ Len(currentPath) + Probed <= Len(sanitized))
       /\ ~Falsy(sanitized) => Probed <= Len(sanitized)
       /\ Falsy(sanitizePath(vaultPath, cwd, req.arg).ret)
            => (pc = "done" /\ events = <<>> /\ reply = NULL)

C24_Witness ==
  /\ req.method = "findClaudeConfig"
  /\ pc = "done"
  /\ sanitized = "/vault/a/a"
  /\ Len(events) = 6
  /\ events[6] = Event("probe", "/vault/.claude/config.json", "config")
  /\ reply = "/vault/.claude/config.json"

\* C25: findClaudeConfig returns the nearest configuration: the config of the
\* closest level that has a readable config of admissible size; a level
\* without one (no file, a read error, a config that is too large) does not
\* stop the search, so null is returned only when the search has looked at
\* every level up to the vault root.
C25_NearestConfig ==
  (/\ req.method = "findClaudeConfig"
   /\ pc = "done"
   /\ ~Falsy(sanitized)
   /\ adapterPath = vaultPath
   /\ \A i \in 1..Len(events) : events[i].kind = "validateFileOperation" => events[i].ok)
    => /\ reply # NULL
            => /\ events[Len(events)] = Event("probe", reply, "config")
               /\ \A i \in 1..(Len(events) - 1) :
                    IsProbe(events[i]) => events[i].ok # "config"
       /\ reply = NULL
            => \E i \in 1..Len(events) :
                 IsProbe(events[i]) /\ events[i].val = configPathOf(vaultPath)

----------------------------------------------------------------------------
(* C26..C28: the conversation history (ChatSpec).                          *)

\* The call whose request settled in this step.
Settles(call) == BagIn(call, pending) /\ pending' = pending (-) SetToBag({call})

WellFormedHistory(h) ==
  /\ Len(h) <= historyLimit
  /\ Len(h) % 2 = 0
  /\ \A i \in 1..Len(h) : h[i].role = IF i % 2 = 1 THEN "user" ELSE "assistant"

\* C26: conversationHistory has at most 20 entries, has even length and
\* alternates user, assistant from a user entry on; when an exchange is added
\* beyond the bound, the entries dropped are the oldest: the new history is
\* the end of the old one followed by the new exchange.
C26_HistoryBounded ==
  /\ [](WellFormedHistory(conversationHistory))
  /\ [][\A call \in BagToSet(pending) :
          (Settles(call) /\ lastSettled' = "response")
            => LET n == Len(conversationHistory')
                   userMessage == buildUserMessage(call.request)
               IN /\ n = IF Len(conversationHistory) + 2 > historyLimit
                         THEN historyLimit ELSE Len(conversationHistory) + 2
                  /\ conversationHistory'[n - 1] = Message("user", userMessage)
                  /\ conversationHistory'[n].role = "assistant"
                  /\ SubSeq(conversationHistory', 1, n - 2)
                       = SliceLast(conversationHistory, n - 2)]_vars

C26_Witness ==
  /\ Len(conversationHistory) = historyLimit
  /\ conversationHistory[1].content = "command"
  /\ conversationHistory[historyLimit - 1].content = "text"
  /\ lastSettled = "response"

\* C27: a failed request leaves the conversation unchanged: in the step in
\* which a call fails (no API key, an HTTP error, any thrown error) the
\* history stays as it is; sendRequest rethrows, sendTerminalCommand returns
\* the 'Error: ...' string.
C27_FailureLeavesHistory ==
  [][/\ lastSettled' \in {"throws", "errorString"}
          => conversationHistory' = conversationHistory
     /\ \A call \in BagToSet(pending) :
          (Settles(call) /\ lastSettled' # "response")
            => lastSettled' = IF call.request.action = "terminal"
                              THEN "errorString" ELSE "throws"]_vars

C27_Witness ==
  /\ lastSettled = "errorString"
  /\ Len(conversationHistory) = 2
  /\ pending = EmptyBag

\* C28: once the session has been reset, conversationHistory never again
\* gains a message of a request made before the reset, even of one that was
\* awaiting its answer at the time of the reset.
C28_ResetDiscardsEarlier ==
  [][\A call \in BagToSet(pending) :
       (call.stale /\ Settles(call)) => conversationHistory' = conversationHistory]_vars

----------------------------------------------------------------------------
(* C29, C30: the registry of custom actions, the terminal's history.       *)

EnabledIds(definitions) ==
  {definitions[i].id : i \in {j \in 1..Len(definitions) : definitions[j].enabled}}

\* C29: the ids of the active-action map are the ids of the definitions in
\* actionDefinitions whose enabled flag is true, after any sequence of
\* loadCustomActions, addCustomAction, removeCustomAction and
\* updateActionDefinitions; and addCustomAction with an id that exists
\* already replaces that definition and adds no second one.
C29_RegistryConsistent ==
  /\ [](DOMAIN customActions = EnabledIds(actionDefinitions))
  /\ [][\A definition \in Definitions :
         (AddCustomAction(definition) /\ FindIndex(actionDefinitions, definition.id) > 0)
           => /\ Len(actionDefinitions') = Len(actionDefinitions)
              /\ actionDefinitions'[FindIndex(actionDefinitions, definition.id)] = definition]_vars

\* What the input shows for a cursor: the command under it, nothing past the end.
Shown(commands, index) == IF index < Len(commands) THEN commands[index + 1] ELSE ""

\* C30: once a command has been submitted the cursor stays within
\* 0..history.length; after an arrow key the input shows the command under
\* the cursor, and nothing when the cursor is past the last command;
\* submitting a command puts the cursor past the last command and empties
\* the input.
C30_CursorInRange ==
  /\ [](Len(history) > 0 => historyIndex \in 0..Len(history))
  /\ []((Len(history) > 0 /\ key \in {"ArrowUp", "ArrowDown"})
          => input = Shown(history, historyIndex))
  /\ [][Len(history') > Len(history)
         => (historyIndex' = Len(history') /\ input' = "")]_vars

\* Two different commands submitted, then ArrowUp back to the older one.
C30_Witness ==
  /\ Len(history) = 2
  /\ historyIndex = 0
  /\ key = "ArrowUp"
  /\ input = history[1]
  /\ history[1] # history[2]

====
